---- MODULE Spec2Model ----
(***************************************************************************)
(* Model of safe-analysis: the paginated query/poll client of              *)
(* src/src/dune-query.ts (DuneAnalytics) and the multiSend decoder         *)
(* (ParseTransaction).                                                     *)
(***************************************************************************)
EXTENDS Integers, Sequences, FiniteSets, TLC

(***************************************************************************)
(* Bounds of the model                                                     *)
(***************************************************************************)
\* config.dataPerQuery, scaled down (rows per page)
PerPage == 2
\* rows the remote query holds at most
MaxRows == 7
\* largest config.maxRetries explored
MaxAttempts == 5

\* packed records in a multiSend buffer at most (a truncated one not counted)
MaxRecords == 2
\* rows of a page given to decodeSafeTransaction
MaxTxs == 2
\* records given to the aggregation at most
MaxData == 3
\* largest topCount explored
MaxTop == 2

(***************************************************************************)
(* Program constants                                                       *)
(***************************************************************************)
DelayCap == 30000
RateLimitBase == 5000
RateLimitCap == 60000
\* widths of the fields of a packed record, in bytes
OperationWidth == 1
AddressWidth == 20
WordWidth == 32
\* width of a function selector, in bytes
SelectorWidth == 4

\* values of config.retryDelay explored (2000 is the default)
RetryDelays == {2000, 16000}
\* values of Math.random() explored, in tenths
RandomTenths == {0, 9}
\* the query ids a caller passes
QueryIds == {0, 1}
\* the `error` field of a FAILED response ("" when the field is absent)
ErrorTexts == {"", "syntax error"}

VARIABLES
  op,            \* the public operation that was called
  pc,            \* where the single thread of control is suspended
  maxAttempts,   \* config.maxRetries
  retryDelay,    \* config.retryDelay
  currentPage,   \* getPaginatedData: currentPage
  allPages,      \* getPaginatedData: allPages
  attempt,       \* pollForResults: attempt
  pollLog,       \* the responses of the current pollForResults call that led to a sleep
  requests,      \* HTTP GET requests issued by the current pollForResults call
  pageRequests,  \* pollForResults calls made by getPaginatedData
  pageLog,       \* the limit and offset of each pollForResults call, in order
  served,        \* the row sequences the source has answered with, in order
  lastResp,      \* the answer to the latest request of the current pollForResults call
  pollResult,    \* how the latest pollForResults call ended
  result,        \* how the public operation ended
  variant,       \* which ParseTransaction is in use
  input,         \* what the outer call data was built from
  callData,      \* decodeMultiSend: data, a hex string
  dpc,           \* where decodeMultiSend is
  dataBytes,     \* parseMultiSendTransactions: dataBytes
  offset,        \* parseMultiSendTransactions: offset
  transactions,  \* parseMultiSendTransactions: transactions
  caught,        \* whether a catch block of the decoder has run
  decoded,       \* what decodeMultiSend returned
  rawData,       \* decodeSafeTransaction: rawData, the rows of a page
  rpc,           \* where decodeSafeTransaction is
  rowNext,       \* decodeSafeTransaction: the row the loop is at
  rowsResult,    \* decodeSafeTransaction: result
  rowsOutcome,   \* how decodeSafeTransaction ended
  aggVersion,    \* which AnalyzeSafe is in use: summarize or handle
  analyzedData,  \* summarize: analyzedData
  aggData,       \* handle: data; summarize: multiSendAddresses
  topCount,      \* options.topCount; config.defaultTopCount
  apc,           \* where the aggregation is
  aggNext,       \* the record the fold is at
  aggMap,        \* summarize, handle: result, its entries in insertion order
  topProtocols,  \* rankedMultiSendData; topProtocols
  exported,      \* what exportResults was handed
  aggOutcome,    \* how the aggregation ended
  analyzeWithLabel  \* config.analyzeWithLabel

fetchVars == <<op, pc, maxAttempts, retryDelay, currentPage, allPages, attempt,
               pollLog, requests, pageRequests, pageLog, served, lastResp, pollResult,
               result>>

decodeVars == <<variant, input, callData, dpc, dataBytes, offset, transactions,
                caught, decoded>>

rowVars == <<rawData, rpc, rowNext, rowsResult, rowsOutcome>>

aggVars == <<aggVersion, analyzedData, aggData, topCount, apc, aggNext, aggMap,
             topProtocols, exported, aggOutcome, analyzeWithLabel>>

vars == <<fetchVars, decodeVars, rowVars, aggVars>>

(***************************************************************************)
(* Helpers                                                                 *)
(***************************************************************************)
Min(a, b) == IF a <= b THEN a ELSE b

RECURSIVE Pow2(_)
Pow2(n) == IF n <= 0 THEN 1 ELSE 2 * Pow2(n - 1)

RECURSIVE Flat(_)
Flat(pages) == IF pages = <<>> THEN <<>> ELSE Head(pages) \o Flat(Tail(pages))

NoError == [name |-> "none", reason |-> ""]
TimedOut == [name |-> "QueryTimedOut", reason |-> "Query execution timed out"]
HttpError == [name |-> "HttpError", reason |-> ""]
ExecuteError == [name |-> "ExecuteError", reason |-> ""]
ExecutionFailed(e) ==
  [name |-> "QueryExecutionFailed",
   reason |-> IF e = "" THEN "Unknown error" ELSE e]

Pending == [status |-> "pending", rows |-> <<>>, error |-> NoError]
Returned(rows) == [status |-> "returned", rows |-> rows, error |-> NoError]
Threw(err) == [status |-> "threw", rows |-> <<>>, error |-> err]

\* the operations of the first DuneAnalytics (execution id, try/catch around the fetch)
ExecutingOps == {"getAnalyzedData", "getMultiSendTransactions"}
\* the operations of the second DuneAnalytics (query id, no try/catch)
DirectOps == {"getStatistics", "getSafeTransactions"}
Ops == ExecutingOps \cup DirectOps

RunningStates == {"QUERY_STATE_PENDING", "QUERY_STATE_EXECUTING", "QUERY_STATE_COMPLETED"}
\* the statuses of a rejected request explored (0: no response)
HttpStatuses == {0, 429, 500}

\* the rows of the window (limit, offset) when the source answers with k of them
Window(off, k) == [i \in 1..k |-> off + i]

(***************************************************************************)
(* pollForResults                                                          *)
(***************************************************************************)
\* no response received yet by the current pollForResults call
NoResp == [state |-> "none", hasResult |-> FALSE, rows |-> <<>>, error |-> "",
           status |-> 0]
\* a response of the state-check endpoint (HTTP 200)
StateResp(state, hasResult, rows, error) ==
  [state |-> state, hasResult |-> hasResult, rows |-> rows, error |-> error,
   status |-> 200]
\* a rejected request: status 0 stands for an error without a response
ErrorResp(status) ==
  [state |-> "HTTP_ERROR", hasResult |-> FALSE, rows |-> <<>>, error |-> "",
   status |-> status]

\* how a response is named in pollLog
Label(resp) ==
  IF resp.state = "HTTP_ERROR" THEN "HTTP_429"
  ELSE IF resp.state = "QUERY_STATE_COMPLETED" THEN "COMPLETED_NO_RESULT"
  ELSE resp.state

\* BackoffDelay without the exponential factor
BackoffDelayFlat(baseDelay, att, r) ==
  LET jitter == (r * baseDelay) \div 100
  IN  Min(baseDelay + jitter, DelayCap)

\* BackoffDelay without the cap
BackoffDelayUncapped(baseDelay, att, r) ==
  LET exponentialDelay == baseDelay * Pow2(att)
      jitter == (r * exponentialDelay) \div 100
  IN  exponentialDelay + jitter

\* the sleep after a poll that found the query still running
BackoffDelay(baseDelay, att, r) ==
  LET exponentialDelay == baseDelay * Pow2(att)
      jitter == (r * exponentialDelay) \div 100
  IN  Min(exponentialDelay + jitter, DelayCap)

\* RateLimitDelay without the exponential factor
RateLimitDelayFlat(att) == Min(RateLimitBase, RateLimitCap)

\* the sleep after a poll answered with HTTP 429
RateLimitDelay(att) == Min(RateLimitBase * Pow2(att), RateLimitCap)

\* Classify returning on state COMPLETED without a test for the result
ClassifyCompletedReturns(state, hasResult) ==
  IF state = "QUERY_STATE_COMPLETED" THEN "return"
  ELSE IF state = "QUERY_STATE_FAILED" THEN "throw"
  ELSE "sleep"

\* Classify with a state name no response carries in its first test
ClassifyNeverReturns(state, hasResult) ==
  IF state = "QUERY_STATE_COMPLETE" /\ hasResult THEN "return"
  ELSE IF state = "QUERY_STATE_FAILED" THEN "throw"
  ELSE "sleep"

\* the branch the try block takes on a response
Classify(state, hasResult) ==
  IF state = "QUERY_STATE_COMPLETED" /\ hasResult THEN "return"
  ELSE IF state = "QUERY_STATE_FAILED" THEN "throw"
  ELSE "sleep"

\* IsRateLimited taking an error without a response for a rate limit too
IsRateLimitedOrNoResponse(status) == status \in {429, 0}

\* IsRateLimited taking every error for a rate limit
IsRateLimitedAnyError(status) == status # 200

\* IsRateLimited taking no error for a rate limit
IsRateLimitedNever(status) == FALSE

\* the catch block's test: axiosError.response?.status === 429
IsRateLimited(status) == status = 429

\* LoopOrTimeout with an inclusive comparison
LoopOrTimeoutInclusive(att, limit) == IF att <= limit THEN "poll" ELSE "thrown"

\* the for loop's condition: another request, or the throw after the loop
LoopOrTimeout(att, limit) == IF att < limit THEN "poll" ELSE "thrown"

\* NextAttempt counting every sleep twice
NextAttemptTwice(att, label) == att + 2

\* NextAttempt leaving the counter alone after a rate-limited poll
NextAttemptSkipsRateLimit(att, label) == IF label = "HTTP_429" THEN att ELSE att + 1

\* the loop's update after an iteration that ended in a sleep
NextAttempt(att, label) == att + 1

\* PageOffset counting the pages from zero
PageOffsetOfNext(page, perPage) == page * perPage

\* the offset of a page: (currentPage - 1) * perPage
PageOffset(page, perPage) == (page - 1) * perPage

\* the limit and offset getPaginatedData passes for a page
IssuePage(page) ==
  pageLog' = Append(pageLog, [limit |-> PerPage, offset |-> PageOffset(page, PerPage)])

\* getPaginatedData calls pollForResults
EnterPoll ==
  /\ attempt' = 0
  /\ pollLog' = <<>>
  /\ requests' = 0
  /\ lastResp' = NoResp
  /\ pageRequests' = pageRequests + 1
  /\ pc' = LoopOrTimeout(0, maxAttempts)
  /\ pollResult' = IF LoopOrTimeout(0, maxAttempts) = "poll" THEN Pending
                   ELSE Threw(TimedOut)

\* the catch block: sleep and continue on HTTP 429, rethrow anything else
CatchBlock(resp, err) ==
  IF IsRateLimited(resp.status)
    THEN /\ pollLog' = Append(pollLog, [resp |-> Label(resp), attempt |-> attempt,
                                        delay |-> RateLimitDelay(attempt)])
         /\ pc' = "sleep"
         /\ UNCHANGED pollResult
    ELSE /\ pollResult' = Threw(err)
         /\ pc' = "thrown"
         /\ UNCHANGED pollLog

\* one iteration of the loop up to its return, throw or sleep:
\* the request is answered with resp; r is the value of Math.random()
Poll(resp, r) ==
  /\ pc = "poll"
  /\ requests' = requests + 1
  /\ lastResp' = resp
  /\ served' = IF resp.state = "QUERY_STATE_COMPLETED" /\ resp.hasResult
                 THEN Append(served, resp.rows) ELSE served
  /\ IF resp.state = "HTTP_ERROR"
       THEN CatchBlock(resp, HttpError)
       ELSE CASE Classify(resp.state, resp.hasResult) = "return" ->
                   /\ pollResult' = Returned(resp.rows)
                   /\ pc' = "page"
                   /\ UNCHANGED pollLog
              [] Classify(resp.state, resp.hasResult) = "throw" ->
                   \* an Error that carries no response
                   CatchBlock(ErrorResp(0), ExecutionFailed(resp.error))
              [] OTHER ->
                   /\ pollLog' = Append(pollLog,
                                   [resp |-> Label(resp), attempt |-> attempt,
                                    delay |-> BackoffDelay(retryDelay, attempt, r)])
                   /\ pc' = "sleep"
                   /\ UNCHANGED pollResult
  /\ UNCHANGED <<op, maxAttempts, retryDelay, currentPage, allPages, attempt,
                 pageRequests, pageLog, result>>
  /\ UNCHANGED <<decodeVars, rowVars, aggVars>>

\* state COMPLETED with a result of k rows
RespCompleted(k) ==
  /\ (currentPage - 1) * PerPage + k <= MaxRows
  /\ Poll(StateResp("QUERY_STATE_COMPLETED", TRUE,
                    Window((currentPage - 1) * PerPage, k), ""), 0)

\* state FAILED
RespFailed(e) ==
  /\ pc = "poll"
  /\ Poll(StateResp("QUERY_STATE_FAILED", FALSE, <<>>, e), 0)

\* state PENDING or EXECUTING, or COMPLETED without a result
RespRunning(st, r) ==
  /\ pc = "poll"
  /\ Poll(StateResp(st, FALSE, <<>>, ""), r)

\* the request is rejected: HTTP 429, another status, or no response at all
RespHttpError(status) ==
  /\ pc = "poll"
  /\ Poll(ErrorResp(status), 0)

\* the sleep ends: the loop's update, then its condition
SleepDone ==
  /\ pc = "sleep"
  /\ LET next == NextAttempt(attempt, pollLog[Len(pollLog)].resp)
     IN  /\ attempt' = next
         /\ pc' = LoopOrTimeout(next, maxAttempts)
         /\ pollResult' = IF LoopOrTimeout(next, maxAttempts) = "poll"
                            THEN pollResult ELSE Threw(TimedOut)
  /\ UNCHANGED <<op, maxAttempts, retryDelay, currentPage, allPages, pollLog,
                 requests, pageRequests, pageLog, served, lastResp, result>>
  /\ UNCHANGED <<decodeVars, rowVars, aggVars>>

(***************************************************************************)
(* getPaginatedData and the public operations                              *)
(***************************************************************************)
\* what the public operation does with an error thrown by the fetch
OnError(o, err) == IF o \in ExecutingOps THEN Returned(<<>>) ELSE Threw(err)

\* HasMoreData going on after every non-empty page
HasMoreDataNonEmpty(data, perPage) == Len(data) > 0

\* whether the loop of getPaginatedData goes on after a page
HasMoreData(data, perPage) == Len(data) >= perPage

\* PushPage keeping the latest page only
PushPageReplace(pages, data) == <<data>>

\* the pages kept after a non-empty page came in
PushPage(pages, data) == Append(pages, data)

\* a public operation is called
Call(o, q) ==
  /\ pc = "idle"
  /\ op' = o
  /\ IF q <= 0
       THEN /\ pc' = "done"
            /\ result' = Returned(<<>>)
            /\ UNCHANGED <<attempt, pollLog, requests, pageRequests, pageLog, lastResp, pollResult>>
       ELSE IF o \in ExecutingOps
         THEN /\ pc' = "execute"
              /\ UNCHANGED <<attempt, pollLog, requests, pageRequests, pageLog, lastResp,
                             pollResult, result>>
         ELSE /\ EnterPoll
              /\ IssuePage(currentPage)
              /\ UNCHANGED result
  /\ UNCHANGED <<maxAttempts, retryDelay, currentPage, allPages, served>>
  /\ UNCHANGED <<decodeVars, rowVars, aggVars>>

\* executeQuery's POST is answered
ExecuteResponse(ok) ==
  /\ pc = "execute"
  /\ IF ok
       THEN /\ EnterPoll
            /\ IssuePage(currentPage)
            /\ UNCHANGED result
       ELSE /\ pc' = "done"
            /\ result' = OnError(op, ExecuteError)
            /\ UNCHANGED <<attempt, pollLog, requests, pageRequests, pageLog, lastResp, pollResult>>
  /\ UNCHANGED <<op, maxAttempts, retryDelay, currentPage, allPages, served>>
  /\ UNCHANGED <<decodeVars, rowVars, aggVars>>

\* pollForResults resolved: the body of getPaginatedData's loop
PageReturned ==
  /\ pc = "page"
  /\ LET data == pollResult.rows
     IN  IF Len(data) = 0
           THEN /\ pc' = "done"
                /\ result' = Returned(Flat(allPages))
                /\ UNCHANGED <<currentPage, allPages, attempt, pollLog, requests,
                               pageRequests, pageLog, lastResp, pollResult>>
           ELSE /\ allPages' = PushPage(allPages, data)
                /\ currentPage' = currentPage + 1
                /\ IF HasMoreData(data, PerPage)
                     THEN /\ EnterPoll
                          /\ IssuePage(currentPage + 1)
                          /\ UNCHANGED result
                     ELSE /\ pc' = "done"
                          /\ result' = Returned(Flat(PushPage(allPages, data)))
                          /\ UNCHANGED <<attempt, pollLog, requests, pageRequests, pageLog,
                                         lastResp, pollResult>>
  /\ UNCHANGED <<op, maxAttempts, retryDelay, served>>
  /\ UNCHANGED <<decodeVars, rowVars, aggVars>>

\* pollForResults rejected: getPaginatedData rethrows to the public operation
PollThrew ==
  /\ pc = "thrown"
  /\ pc' = "done"
  /\ result' = OnError(op, pollResult.error)
  /\ UNCHANGED <<op, maxAttempts, retryDelay, currentPage, allPages, attempt,
                 pollLog, requests, pageRequests, pageLog, served, lastResp, pollResult>>
  /\ UNCHANGED <<decodeVars, rowVars, aggVars>>

(***************************************************************************)
(* Specification of the fetch pipeline                                     *)
(***************************************************************************)
FetchIdle ==
  /\ op = "none"
  /\ pc = "idle"
  /\ currentPage = 1
  /\ allPages = <<>>
  /\ attempt = 0
  /\ pollLog = <<>>
  /\ requests = 0
  /\ pageRequests = 0
  /\ pageLog = <<>>
  /\ served = <<>>
  /\ lastResp = NoResp
  /\ pollResult = Pending
  /\ result = Pending

\* the decoder before any call
DecodeIdle ==
  /\ dpc = "idle"
  /\ dataBytes = <<>>
  /\ offset = 0
  /\ transactions = <<>>
  /\ caught = FALSE
  /\ decoded = Pending

\* decodeSafeTransaction before any call
RowsIdle ==
  /\ rawData = <<>>
  /\ rpc = "idle"
  /\ rowNext = 1
  /\ rowsResult = <<>>
  /\ rowsOutcome = Pending

\* the aggregation before any call
AggIdle ==
  /\ aggVersion = "none"
  /\ analyzedData = <<>>
  /\ aggData = <<>>
  /\ topCount = 0
  /\ apc = "idle"
  /\ aggNext = 1
  /\ aggMap = <<>>
  /\ topProtocols = <<>>
  /\ exported = <<>>
  /\ aggOutcome = Pending
  /\ analyzeWithLabel = FALSE

InitFetch ==
  /\ RowsIdle
  /\ AggIdle
  /\ FetchIdle
  /\ maxAttempts \in 0..MaxAttempts
  /\ retryDelay \in RetryDelays
  /\ DecodeIdle
  /\ variant = "none"
  /\ input = [form |-> "none"]
  /\ callData = <<>>

NextFetch ==
  \/ \E o \in Ops, q \in QueryIds : Call(o, q)
  \/ \E ok \in BOOLEAN : ExecuteResponse(ok)
  \/ \E k \in 0..PerPage : RespCompleted(k)
  \/ \E e \in ErrorTexts : RespFailed(e)
  \/ \E st \in RunningStates, r \in RandomTenths : RespRunning(st, r)
  \/ \E status \in HttpStatuses : RespHttpError(status)
  \/ SleepDone
  \/ PageReturned
  \/ PollThrew

SpecFetch == InitFetch /\ [][NextFetch]_vars

(***************************************************************************)
(* Bytes, hex strings and numbers                                          *)
(***************************************************************************)
Max(a, b) == IF a >= b THEN a ELSE b

Zeros(n) == [i \in 1..n |-> 0]

\* the big-endian bytes of a natural number, without leading zeros
RECURSIVE ToBytes(_)
ToBytes(n) == IF n = 0 THEN <<>> ELSE ToBytes(n \div 256) \o <<n % 256>>

\* bytes padded on the left to n bytes
PadLeft(b, n) == Zeros(n - Len(b)) \o b

\* a 32-byte big-endian word
Word(n) == PadLeft(ToBytes(n), WordWidth)

\* a hex string is the sequence of its digits after "0x": 0..15 stand for
\* 0-9a-f, 26..31 for the upper-case letters A-F
HexToBytes(h) ==
  LET hh == IF Len(h) % 2 = 1 THEN <<0>> \o h ELSE h
  IN  [i \in 1..(Len(hh) \div 2) |-> 16 * hh[2 * i - 1] + hh[2 * i]]

BytesToHex(b) ==
  [i \in 1..(2 * Len(b)) |->
     IF i % 2 = 1 THEN b[(i + 1) \div 2] \div 16 ELSE b[i \div 2] % 16]

\* String.prototype.toLowerCase on a hex string
ToLowerCase(h) == [i \in 1..Len(h) |-> IF h[i] >= 16 THEN h[i] - 16 ELSE h[i]]

\* TypedArray.prototype.slice(start, end)
JsSlice(b, start, end) ==
  LET len == Len(b)
      k == IF start < 0 THEN Max(len + start, 0) ELSE Min(start, len)
      final == IF end < 0 THEN Max(len + end, 0) ELSE Min(end, len)
  IN  IF final <= k THEN <<>> ELSE SubSeq(b, k + 1, final)

\* a bigint is the sequence of its big-endian bytes without leading zeros
BytesToBigInt(b) ==
  LET nonZero == {i \in 1..Len(b) : b[i] # 0}
  IN  IF nonZero = {} THEN <<>>
      ELSE SubSeq(b, CHOOSE i \in nonZero : \A j \in nonZero : i <= j, Len(b))

\* the value of at most three bytes
RECURSIVE SmallValue(_)
SmallValue(b) ==
  IF b = <<>> THEN 0 ELSE 256 * SmallValue(SubSeq(b, 1, Len(b) - 1)) + b[Len(b)]

\* what stands for every number of 2^24 and more: above any buffer length
Saturated == 1073741824

\* viem's bytesToNumber, Number(BigInt(hex)): exact below 2^24
BytesToNumberViem(b) ==
  LET v == BytesToBigInt(b)
  IN  IF Len(v) <= 3 THEN SmallValue(v) ELSE Saturated

\* ToInt32(x << 8) for a 32-bit x: the low 24 bits move up, bit 23 becomes the sign
ShiftLeft8(x) ==
  LET low == x % 16777216
      sign == low \div 8388608
      rest == low % 8388608
  IN  (rest * 256 - sign * 1073741824) - sign * 1073741824

\* the loop of the hand-written bytesToNumber: result = (result << 8) + bytes[i]
RECURSIVE ShiftLoop(_, _)
ShiftLoop(b, acc) ==
  IF b = <<>> THEN acc
  ELSE ShiftLoop(Tail(b), ShiftLeft8(acc) + Head(b))

\* the hand-written bytesToNumber. Four shifts by 8 move a byte out of the 32
\* bits, so the loop over all the bytes leaves what the loop over the last
\* four leaves
BytesToNumberShift(b) == ShiftLoop(JsSlice(b, -4, Len(b)), 0)

BytesToNumber(v, b) ==
  IF v = "part_005" THEN BytesToNumberShift(b) ELSE BytesToNumberViem(b)

(***************************************************************************)
(* Call data the decoder is given                                          *)
(***************************************************************************)
MultiSendSelector == <<141, 128, 255, 10>>
TransferSelector == <<169, 5, 156, 187>>
TransferFromSelector == <<35, 184, 114, 221>>
\* execTransaction(...): a selector the decoder does not know
OtherSelector == <<106, 118, 18, 2>>

AddrA == [i \in 1..AddressWidth |-> 170]
AddrB == Zeros(AddressWidth - 1) \o <<1>>
AddrToken == [i \in 1..AddressWidth |-> IF i % 2 = 1 THEN 192 ELSE 222]

\* an address argument, ABI-encoded
AbiAddress(a) == Zeros(WordWidth - AddressWidth) \o a

\* a packed record: the declared length is that of the data
Rec(operation, to, value, data) ==
  [operation |-> operation, to |-> to, value |-> value,
   lenField |-> Word(Len(data)), data |-> data]

\* the packed encoding of a record
EncodeRecord(rec) ==
  <<rec.operation>> \o rec.to \o PadLeft(rec.value, WordWidth)
    \o rec.lenField \o rec.data

RECURSIVE EncodeRecords(_)
EncodeRecords(recs) ==
  IF recs = <<>> THEN <<>> ELSE EncodeRecord(Head(recs)) \o EncodeRecords(Tail(recs))

\* the records the inputs are built from
SampleRecords ==
  << Rec(0, AddrA, <<1>>, <<>>),
     Rec(1, AddrB, <<32, 0, 0, 0, 0, 0, 1>>, OtherSelector \o <<7>>),
     Rec(0, AddrToken, <<>>, TransferSelector \o AbiAddress(AddrB) \o Word(500)),
     Rec(0, AddrToken, <<1, 0, 0, 0, 0, 0, 0, 0, 5>>,
         TransferFromSelector \o AbiAddress(AddrA) \o AbiAddress(AddrB) \o Word(7)),
     Rec(0, AddrToken, <<2>>, TransferSelector \o AbiAddress(AddrB) \o <<0, 0, 1>>),
     Rec(1, AddrA, <<>>, <<169, 5>>) >>

\* m sample records in a row, from the k-th on (and round again after the last)
RecordRun(k, m) ==
  [i \in 1..m |-> SampleRecords[((k + i - 2) % Len(SampleRecords)) + 1]]

\* the runs of at most n sample records
RecordSeqs(n) ==
  {<<>>} \cup {RecordRun(k, m) : k \in 1..Len(SampleRecords), m \in 1..n}

\* where a record is cut: inside and at the end of every field
CutPoints(n) ==
  {c \in {1, 20, 21, 52, 53, 84, 85, n - 1} : c > 0 /\ c < n}

\* the fixed-width fields of a record whose length field declares 2^32 bytes
\* of data: none of them follows
OverlongHeader ==
  <<0>> \o AddrA \o Zeros(WordWidth) \o PadLeft(<<1, 0, 0, 0, 0>>, WordWidth)

\* the same with a length field of 2^32 - 85, and with one of 2^31
WrappedHeader ==
  <<0>> \o AddrA \o Zeros(WordWidth) \o PadLeft(<<255, 255, 255, 171>>, WordWidth)
HalfHeader ==
  <<0>> \o AddrA \o Zeros(WordWidth) \o PadLeft(<<128, 0, 0, 0>>, WordWidth)

\* the truncated records: the proper, non-empty prefixes of the encodings of
\* the sample records, and the headers that declare more data than any
\* buffer holds
Tails ==
  {<<>>, OverlongHeader, WrappedHeader, HalfHeader} \cup
  UNION { {SubSeq(EncodeRecord(SampleRecords[k]), 1, c) :
             c \in CutPoints(Len(EncodeRecord(SampleRecords[k])))}
          : k \in 1..Len(SampleRecords) }

\* a call of selector(bytes) on a packed buffer, ABI-encoded
EncodeCall(selector, packed) ==
  selector \o Word(WordWidth) \o Word(Len(packed)) \o packed
    \o Zeros((WordWidth - (Len(packed) % WordWidth)) % WordWidth)

CallInput(selector, recs, tail) ==
  [form |-> "call", selector |-> selector, records |-> recs, tail |-> tail,
   bytes |-> EncodeCall(selector, EncodeRecords(recs) \o tail)]

RawInput(bytes) ==
  [form |-> "raw", selector |-> <<>>, records |-> <<>>, tail |-> <<>>,
   bytes |-> bytes]

Inputs ==
  {CallInput(MultiSendSelector, recs, tail) : recs \in RecordSeqs(MaxRecords), tail \in Tails}
  \cup {CallInput(sel, recs, <<>>) :
          sel \in {OtherSelector, TransferSelector},
          recs \in {q \in RecordSeqs(MaxRecords) : Len(q) <= 1}}
  \cup {RawInput(b) :
          b \in {<<>>, <<141, 128>>, MultiSendSelector,
                 MultiSendSelector \o Zeros(16),
                 MultiSendSelector \o Word(64),
                 MultiSendSelector \o Word(WordWidth) \o Word(3) \o <<1, 2>>}}

(***************************************************************************)
(* decodeMultiSend and parseMultiSendTransactions                          *)
(***************************************************************************)
Variants == {"part_003", "part_004", "part_005"}

\* SelectorFound taking every selector for a function of the abi
SelectorFoundAlways(selector, abiSelector) == TRUE

\* viem's decodeFunctionData: whether the abi holds the data's selector
SelectorFound(selector, abiSelector) == selector = abiSelector

\* viem's decodeAbiParameters for the one parameter `bytes`
DecodeBytesArgument(args) ==
  IF Len(args) < WordWidth THEN [ok |-> FALSE, bytes |-> <<>>]
  ELSE LET at == BytesToNumberViem(SubSeq(args, 1, WordWidth))
       IN  IF at + WordWidth > Len(args) THEN [ok |-> FALSE, bytes |-> <<>>]
           ELSE LET n == BytesToNumberViem(SubSeq(args, at + 1, at + WordWidth))
                IN  IF n > Len(args) - at - WordWidth
                      THEN [ok |-> FALSE, bytes |-> <<>>]
                      ELSE [ok |-> TRUE,
                            bytes |-> SubSeq(args, at + WordWidth + 1,
                                             at + WordWidth + n)]

\* decodeFunctionData({abi: multisendAbi, data}): ok is FALSE when it throws
DecodeFunctionData(data) ==
  LET bytes == HexToBytes(data)
  IN  IF ~SelectorFound(SubSeq(bytes, 1, Min(SelectorWidth, Len(bytes))),
                        MultiSendSelector)
        THEN [ok |-> FALSE, bytes |-> <<>>]
        ELSE DecodeBytesArgument(SubSeq(bytes, SelectorWidth + 1, Len(bytes)))

\* dataBytes[i]: -1 stands for undefined
ByteAt(b, i) == IF i >= 0 /\ i < Len(b) THEN b[i + 1] ELSE -1

\* Short with an inclusive comparison
ShortInclusive(off, n, len) == n >= len - off

\* the test before each read: offset + n > dataBytes.length
Short(off, n, len) == n > len - off

\* one iteration of the scan loop from offset off: the offset it leaves, the
\* record it pushes (if any) and whether it breaks
Scan(v, bytes, off) ==
  LET len == Len(bytes)
      o1 == off + OperationWidth
      o2 == o1 + AddressWidth
      o3 == o2 + WordWidth
      o4 == o3 + WordWidth
      dataLength == BytesToNumber(v, JsSlice(bytes, o3, o4))
      Break(o) == [offset |-> o, tx |-> <<>>, brk |-> TRUE]
  IN  IF off >= len THEN Break(off)
      ELSE IF Short(o1, AddressWidth, len) THEN Break(o1)
      ELSE IF Short(o2, WordWidth, len) THEN Break(o2)
      ELSE IF Short(o3, WordWidth, len) THEN Break(o3)
      ELSE IF Short(o4, dataLength, len) THEN Break(o4)
      ELSE [offset |-> o4 + dataLength,
            tx |-> << [operation |-> ByteAt(bytes, off),
                       to |-> BytesToHex(JsSlice(bytes, o1, o2)),
                       value |-> BytesToBigInt(JsSlice(bytes, o2, o3)),
                       data |-> BytesToHex(JsSlice(bytes, o4, o4 + dataLength)),
                       dataLength |-> dataLength] >>,
            brk |-> FALSE]

\* decodeMultiSend is called: decodeFunctionData, then hexToBytes of its argument
DecodeCall ==
  /\ dpc = "idle"
  /\ LET d == DecodeFunctionData(callData)
     IN  IF d.ok
           THEN /\ dataBytes' = HexToBytes(BytesToHex(d.bytes))
                /\ dpc' = "parse"
                /\ UNCHANGED <<caught, decoded>>
           ELSE /\ caught' = TRUE
                /\ decoded' = Returned(<<>>)
                /\ dpc' = "done"
                /\ UNCHANGED dataBytes
  /\ offset' = 0
  /\ transactions' = <<>>
  /\ UNCHANGED <<variant, input, callData>>
  /\ UNCHANGED <<fetchVars, rowVars, aggVars>>

\* the records the scan is followed for: more than any buffer here holds
MaxScan == MaxRecords + 2

\* one iteration of the while loop of parseMultiSendTransactions
ParseStep ==
  /\ dpc = "parse"
  /\ offset < Len(dataBytes)
  /\ Len(transactions) < MaxScan
  /\ LET it == Scan(variant, dataBytes, offset)
     IN  /\ offset' = it.offset
         /\ transactions' = transactions \o it.tx
         /\ dpc' = IF it.brk THEN "parsed" ELSE "parse"
  /\ UNCHANGED <<variant, input, callData, dataBytes, caught, decoded>>
  /\ UNCHANGED <<fetchVars, rowVars, aggVars>>

\* the while loop ends: parseMultiSendTransactions returns transactions
ParseEnd ==
  /\ dpc = "parse"
  /\ ~(offset < Len(dataBytes))
  /\ dpc' = "parsed"
  /\ UNCHANGED <<variant, input, callData, dataBytes, offset, transactions, caught,
                 decoded>>
  /\ UNCHANGED <<fetchVars, rowVars, aggVars>>

(***************************************************************************)
(* decodeFunction                                                          *)
(***************************************************************************)
\* the bits of a bigint, most significant first, without leading zeros
BitsOf(v) ==
  LET all == [i \in 1..(8 * Len(v)) |->
                (v[((i - 1) \div 8) + 1] \div Pow2(7 - ((i - 1) % 8))) % 2]
      first == IF v = <<>> THEN 1
               ELSE CHOOSE i \in 1..(8 * Len(v)) :
                      all[i] = 1 /\ \A j \in 1..(i - 1) : all[j] = 0
  IN  IF v = <<>> THEN <<>> ELSE SubSeq(all, first, Len(all))

\* the bigint of a sequence of bits
BigIntOfBits(bits) ==
  LET pad == (8 - (Len(bits) % 8)) % 8
      all == Zeros(pad) \o bits
      ByteOf(k) == 128 * all[8 * k - 7] + 64 * all[8 * k - 6] + 32 * all[8 * k - 5]
                   + 16 * all[8 * k - 4] + 8 * all[8 * k - 3] + 4 * all[8 * k - 2]
                   + 2 * all[8 * k - 1] + all[8 * k]
  IN  BytesToBigInt([k \in 1..(Len(all) \div 8) |-> ByteOf(k)])

\* a sequence of bits plus one
BitsPlusOne(bits) ==
  IF \A i \in 1..Len(bits) : bits[i] = 1 THEN <<1>> \o Zeros(Len(bits))
  ELSE LET last == CHOOSE i \in 1..Len(bits) :
                     bits[i] = 0 /\ \A j \in (i + 1)..Len(bits) : bits[j] = 1
       IN  [i \in 1..Len(bits) |->
              IF i < last THEN bits[i] ELSE IF i = last THEN 1 ELSE 0]

\* width of the significand of a Number, in bits
SignificandBits == 53

\* Number(bigint): the nearest double, ties to even, as the bigint it equals
NumberOf(v) ==
  LET bits == BitsOf(v)
      n == Len(bits)
      kept == SubSeq(bits, 1, SignificandBits)
      up == /\ bits[SignificandBits + 1] = 1
            /\ \/ bits[SignificandBits] = 1
               \/ \E i \in (SignificandBits + 2)..n : bits[i] = 1
  IN  IF n <= SignificandBits THEN v
      ELSE BigIntOfBits((IF up THEN BitsPlusOne(kept) ELSE kept)
                        \o Zeros(n - SignificandBits))

\* viem's checksum of an address: a stand-in for the keccak-based EIP-55
\* casing, which puts some of the letters a-f in upper case
ChecksumAddress(h) ==
  [i \in 1..Len(h) |-> IF h[i] >= 10 /\ i % 2 = 1 THEN h[i] + 16 ELSE h[i]]

\* COMMON_ERC20_TRANSFER_SIGNATURE[selector]: the parameter names, or <<>>
GetCommonFunctionAbi(selector) ==
  IF selector = BytesToHex(TransferSelector) THEN <<"to", "amount">>
  ELSE IF selector = BytesToHex(TransferFromSelector) THEN <<"from", "to", "amount">>
  ELSE <<>>

\* Argument taking the first address of the arguments for `to`
ArgumentFirstAddress(abi, args, name) ==
  LET k == IF name = "amount" THEN Len(abi) ELSE 1
      slot == SubSeq(args, WordWidth * (k - 1) + 1, WordWidth * k)
  IN  IF name = "amount"
        THEN [type |-> "string", val |-> BytesToBigInt(slot)]
        ELSE ChecksumAddress(BytesToHex(SubSeq(slot, WordWidth - AddressWidth + 1,
                                               WordWidth)))

\* the value of parameter name decoded from args, one 32-byte slot each
Argument(abi, args, name) ==
  LET k == CHOOSE i \in 1..Len(abi) : abi[i] = name
      slot == SubSeq(args, WordWidth * (k - 1) + 1, WordWidth * k)
  IN  IF name = "amount"
        THEN [type |-> "string", val |-> BytesToBigInt(slot)]
        ELSE ChecksumAddress(BytesToHex(SubSeq(slot, WordWidth - AddressWidth + 1,
                                               WordWidth)))

\* decodeFunction(tx): ok is FALSE when it throws
DecodeFunction(v, tx) ==
  LET selector == SubSeq(tx.data, 1, Min(2 * SelectorWidth, Len(tx.data)))
      abi == GetCommonFunctionAbi(selector)
      args == SubSeq(HexToBytes(tx.data), SelectorWidth + 1, Len(tx.data) \div 2)
  IN  IF abi = <<>>
        THEN [ok |-> TRUE,
              tx |-> [to |-> ToLowerCase(tx.to), gas |-> 0,
                      value |-> [type |-> "number", val |-> NumberOf(tx.value)]]]
      ELSE IF Len(args) < WordWidth * Len(abi)
        THEN [ok |-> FALSE, tx |-> <<>>]
      ELSE [ok |-> TRUE,
            tx |-> [to |-> ToLowerCase(Argument(abi, args, "to")), gas |-> 0,
                    value |-> Argument(abi, args, "amount")]]

\* transactionsData.map(tx => ...): part_003 keeps tx.to, the others decode
MapTransactions(v, txs) ==
  IF v = "part_003" THEN [ok |-> TRUE, txs |-> [i \in 1..Len(txs) |-> txs[i].to]]
  ELSE [ok |-> \A i \in 1..Len(txs) : DecodeFunction(v, txs[i]).ok,
        txs |-> [i \in 1..Len(txs) |-> DecodeFunction(v, txs[i]).tx]]

\* decodeMultiSend after the scan: map the records, or catch and return []
MapRecords ==
  /\ dpc = "parsed"
  /\ LET m == MapTransactions(variant, transactions)
     IN  IF m.ok
           THEN /\ decoded' = Returned(m.txs)
                /\ UNCHANGED caught
           ELSE /\ decoded' = Returned(<<>>)
                /\ caught' = TRUE
  /\ dpc' = "done"
  /\ UNCHANGED <<variant, input, callData, dataBytes, offset, transactions>>
  /\ UNCHANGED <<fetchVars, rowVars, aggVars>>

(***************************************************************************)
(* Specification of the decoder                                            *)
(***************************************************************************)
InitDecode ==
  /\ RowsIdle
  /\ AggIdle
  /\ FetchIdle
  /\ maxAttempts = 0
  /\ retryDelay = 2000
  /\ DecodeIdle
  /\ variant \in Variants
  /\ input \in Inputs
  /\ callData = BytesToHex(input.bytes)

NextDecode ==
  \/ DecodeCall
  \/ ParseStep
  \/ ParseEnd
  \/ MapRecords

SpecDecode == InitDecode /\ [][NextDecode]_vars

(***************************************************************************)
(* decodeSafeTransaction                                                   *)
(***************************************************************************)
\* a value of a row that is a string, and one that is null
JsString(chars) == [null |-> FALSE, str |-> chars]
JsNull == [null |-> TRUE, str |-> <<>>]

\* a row of a page; records is what its call data was built from
Row(operation, to, data, safeTxGas, value, recs) ==
  [null |-> FALSE, operation |-> operation, to |-> to, data |-> data,
   safeTxGas |-> safeTxGas, value |-> value, records |-> recs]

\* an element of the page that is null
NullRow ==
  [null |-> TRUE, operation |-> 0, to |-> JsNull, data |-> JsNull,
   safeTxGas |-> 0, value |-> <<>>, records |-> <<>>]

\* a hex string with its letters in upper case
ToUpperCase(h) == [i \in 1..Len(h) |-> IF h[i] \in 10..15 THEN h[i] + 16 ELSE h[i]]

\* the row of a multiSend call on the packed encodings of recs
BatchRow(recs) ==
  Row(1, JsString(BytesToHex(AddrA)),
      JsString(BytesToHex(CallInput(MultiSendSelector, recs, <<>>).bytes)), 0, <<>>, recs)

\* the rows the pages are built from: a direct call, three batches (the last
\* with a transfer whose arguments are cut), a call of another function, a
\* direct call without `to`, and null
SampleRows ==
  << Row(0, JsString(ToUpperCase(BytesToHex(AddrToken))), JsString(<<>>), 3, <<5>>, <<>>),
     BatchRow(RecordRun(1, 2)),
     BatchRow(RecordRun(3, 2)),
     BatchRow(RecordRun(4, 2)),
     Row(1, JsString(BytesToHex(AddrA)),
         JsString(BytesToHex(CallInput(OtherSelector, <<>>, <<>>).bytes)), 0, <<>>, <<>>),
     Row(0, JsNull, JsString(<<>>), 3, <<5>>, <<>>),
     NullRow >>

\* m sample rows in a row, from the k-th on (and round again after the last)
RowRun(k, m) == [i \in 1..m |-> SampleRows[((k + i - 2) % Len(SampleRows)) + 1]]

\* the pages: the runs of at most n sample rows, and pairs of one row twice
Pages(n) ==
  {<<>>} \cup {RowRun(k, m) : k \in 1..Len(SampleRows), m \in 1..n}
         \cup {<<SampleRows[k], SampleRows[j]>> : k, j \in 1..Len(SampleRows)}

\* the while loop of parseMultiSendTransactions, run to its end
RECURSIVE ScanAll(_, _, _, _)
ScanAll(v, bytes, off, acc) ==
  IF ~(off < Len(bytes)) THEN acc
  ELSE LET it == Scan(v, bytes, off)
       IN  IF it.brk THEN acc \o it.tx
           ELSE ScanAll(v, bytes, it.offset, acc \o it.tx)

\* decodeMultiSend(data): what it returns
DecodeMultiSend(v, data) ==
  IF data.null THEN <<>>
  ELSE LET d == DecodeFunctionData(data.str)
       IN  IF ~d.ok THEN <<>>
           ELSE LET m == MapTransactions(
                           v, ScanAll(v, HexToBytes(BytesToHex(d.bytes)), 0, <<>>))
                IN  IF m.ok THEN m.txs ELSE <<>>

DecodeFailed == [name |-> "Error", reason |-> "Failed to decode Safe transaction"]

\* the callback of reduce (the body of the for loop) on one row: what it
\* pushes, or that it throws
RowOutput(v, tx) ==
  IF tx.null THEN [ok |-> FALSE, out |-> <<>>]
  ELSE IF v = "part_003" THEN [ok |-> TRUE, out |-> DecodeMultiSend(v, tx.data)]
  ELSE IF tx.operation = 0
    THEN IF tx.to.null THEN [ok |-> FALSE, out |-> <<>>]
         ELSE [ok |-> TRUE,
               out |-> << [to |-> ToLowerCase(tx.to.str), gas |-> tx.safeTxGas,
                           value |-> [type |-> "number", val |-> tx.value]] >>]
  ELSE [ok |-> TRUE, out |-> DecodeMultiSend(v, tx.data)]

\* decodeSafeTransaction is called: the test for an empty page
RowsStart ==
  /\ rpc = "idle"
  /\ IF variant # "part_005" /\ Len(rawData) = 0
       THEN /\ rpc' = "done"
            /\ rowsOutcome' = Returned(<<>>)
       ELSE /\ rpc' = "rows"
            /\ UNCHANGED rowsOutcome
  /\ UNCHANGED <<rawData, rowNext, rowsResult>>
  /\ UNCHANGED <<fetchVars, decodeVars, aggVars>>

\* one row: its output is pushed, or its throw is caught and thrown again
RowStep ==
  /\ rpc = "rows"
  /\ rowNext <= Len(rawData)
  /\ LET r == RowOutput(variant, rawData[rowNext])
     IN  IF r.ok
           THEN /\ rowsResult' = rowsResult \o r.out
                /\ rowNext' = rowNext + 1
                /\ UNCHANGED <<rpc, rowsOutcome>>
           ELSE /\ rowsOutcome' = Threw(DecodeFailed)
                /\ rpc' = "done"
                /\ UNCHANGED <<rowsResult, rowNext>>
  /\ UNCHANGED rawData
  /\ UNCHANGED <<fetchVars, decodeVars, aggVars>>

\* after the last row: result is returned
RowsEnd ==
  /\ rpc = "rows"
  /\ rowNext > Len(rawData)
  /\ rowsOutcome' = Returned(rowsResult)
  /\ rpc' = "done"
  /\ UNCHANGED <<rawData, rowNext, rowsResult>>
  /\ UNCHANGED <<fetchVars, decodeVars, aggVars>>

InitRows ==
  /\ FetchIdle
  /\ maxAttempts = 0
  /\ retryDelay = 2000
  /\ DecodeIdle
  /\ variant \in Variants
  /\ input = [form |-> "none"]
  /\ callData = <<>>
  /\ AggIdle
  /\ rawData \in Pages(MaxTxs)
  /\ rpc = "idle"
  /\ rowNext = 1
  /\ rowsResult = <<>>
  /\ rowsOutcome = Pending

NextRows ==
  \/ RowsStart
  \/ RowStep
  \/ RowsEnd

SpecRows == InitRows /\ [][NextRows]_vars

(***************************************************************************)
(* AnalyzeSafe: summarize and handle                                       *)
(***************************************************************************)
\* addresses as strings of hex digits; KeyAUpper is KeyA in upper case
KeyA == <<10, 11>>
KeyAUpper == ToUpperCase(KeyA)
KeyB == <<12, 13>>
KeyC == <<14, 15>>

\* a ParsedTransaction
Tx(to, gas, value) == [to |-> to, gas |-> gas, value |-> value]

\* an AnalyzedInfo; to may be null in a row of the statistics query
Info(namespace, tx_cnt, gas, to, value) ==
  [namespace |-> namespace, tx_cnt |-> tx_cnt, gas |-> gas, to |-> to,
   value |-> value]

\* the transactions handle is given
SampleTxs ==
  << Tx(KeyA, 10, 100),
     Tx(KeyB, 5, 50),
     Tx(KeyA, 3, 30),
     Tx(KeyAUpper, 1, 2),
     Tx(KeyC, 0, 7) >>

\* the sequences of at most n transactions
DataSeqs(n) ==
  UNION {[1..m -> {SampleTxs[i] : i \in 1..Len(SampleTxs)}] : m \in 0..n}

\* the sequences of at most n addresses
AddressSeqs(n) == UNION {[1..m -> {KeyA, KeyAUpper, KeyB, KeyC}] : m \in 0..n}

\* the statistics summarize is given
SampleInfos ==
  { <<>>,
    << Info("uniswap", 4, 9, JsString(KeyAUpper), 20) >>,
    << Info("uniswap", 4, 9, JsString(KeyAUpper), 20),
       Info("uniswap", 2, 1, JsString(KeyA), 3) >>,
    << Info("cow", 1, 6, JsString(KeyB), 0),
       Info("", 3, 2, JsNull, 8) >>,
    << Info("cow", 2, 6, JsString(KeyB), 0),
       Info("uniswap", 2, 9, JsString(KeyA), 20),
       Info("", 5, 2, JsString(KeyC), 8) >> }

\* this.dictionary after loadDictionary: the label of a key, '' without one
Dictionary(key) == IF key = KeyA THEN "uniswap" ELSE ""

\* an entry of result
Entry(key, stat) == [key |-> key, stat |-> stat]

HasKey(map, key) == \E i \in 1..Len(map) : map[i].key = key

\* result[key] = stat: an own property keeps its place, a new one goes last
SetEntry(map, key, stat) ==
  IF HasKey(map, key)
    THEN [i \in 1..Len(map) |-> IF map[i].key = key THEN Entry(key, stat) ELSE map[i]]
    ELSE Append(map, Entry(key, stat))

\* result[key]
GetEntry(map, key) == map[CHOOSE i \in 1..Len(map) : map[i].key = key].stat

\* the entry summarize makes of one AnalyzedInfo
SeedEntry(data) ==
  IF data.to.null
    THEN Entry(<<>>, Info("", 0, 0, JsString(<<>>), 0))
    ELSE Entry(ToLowerCase(data.to.str), data)

\* Object.fromEntries(entries)
RECURSIVE FromEntries(_, _)
FromEntries(entries, acc) ==
  IF entries = <<>> THEN acc
  ELSE FromEntries(Tail(entries),
                   SetEntry(acc, Head(entries).key, Head(entries).stat))

\* one turn of the loop of summarize
SummarizeFold(map, address) ==
  LET normalizedAddress == ToLowerCase(address)
  IN  IF HasKey(map, normalizedAddress)
        THEN SetEntry(map, normalizedAddress,
                      [GetEntry(map, normalizedAddress) EXCEPT !.tx_cnt = @ + 1])
        ELSE SetEntry(map, normalizedAddress,
                      Info("", 1, 0, JsString(normalizedAddress), 0))

\* HandleFold leaving the key as it was given
HandleFoldAsGiven(map, tx, withLabel) ==
  LET normalizedTo == tx.to
  IN  IF HasKey(map, normalizedTo)
        THEN SetEntry(map, normalizedTo,
                      [GetEntry(map, normalizedTo)
                         EXCEPT !.interactions = @ + 1, !.gas = @ + tx.gas])
        ELSE SetEntry(map, normalizedTo,
                      [interactions |-> 1, gas |-> tx.gas,
                       name |-> IF withLabel THEN Dictionary(normalizedTo) ELSE ""])

\* one turn of the loop of handle
HandleFold(map, tx, withLabel) ==
  LET normalizedTo == ToLowerCase(tx.to)
  IN  IF HasKey(map, normalizedTo)
        THEN SetEntry(map, normalizedTo,
                      [GetEntry(map, normalizedTo)
                         EXCEPT !.interactions = @ + 1, !.gas = @ + tx.gas])
        ELSE SetEntry(map, normalizedTo,
                      [interactions |-> 1, gas |-> tx.gas,
                       name |-> IF withLabel THEN Dictionary(normalizedTo) ELSE ""])

\* the count an entry is ranked by
CountOf(version, stat) ==
  IF version = "handle" THEN stat.interactions ELSE stat.tx_cnt

\* SortDescending keeping the order of the entries
SortDescendingNot(version, map) == map

\* sort((a, b) => b - a) on the counts: descending, and stable
SortDescending(version, map) ==
  LET Ahead(i) == {j \in 1..Len(map) :
                     \/ CountOf(version, map[j].stat) > CountOf(version, map[i].stat)
                     \/ /\ CountOf(version, map[j].stat) = CountOf(version, map[i].stat)
                        /\ j < i}
  IN  [r \in 1..Len(map) |->
         map[CHOOSE i \in 1..Len(map) : Cardinality(Ahead(i)) = r - 1]]

\* what exportResults writes: top_count and the ranked entries
Exported(version, top, ranked) ==
  [top_count |-> top,
   result |-> IF version = "handle"
                THEN [i \in 1..Len(ranked) |->
                        [address |-> ranked[i].key,
                         interactions |-> ranked[i].stat.interactions,
                         name |-> ranked[i].stat.name]]
                ELSE [i \in 1..Len(ranked) |-> ranked[i].stat]]

\* what the call returns
JsUndefined == [kind |-> "undefined", entries |-> <<>>]
JsObject(entries) == [kind |-> "object", entries |-> entries]
AggReturned(value) == [status |-> "returned", value |-> value, error |-> NoError]
TopCountError == [name |-> "Error", reason |-> "topCount must be greater than 0"]

\* the call: handle validates its input, summarize seeds result
AggStart ==
  /\ apc = "idle"
  /\ IF aggVersion = "handle"
       THEN IF Len(aggData) = 0
              THEN /\ aggOutcome' = AggReturned(JsObject(<<>>))
                   /\ apc' = "done"
                   /\ UNCHANGED aggMap
            ELSE IF topCount <= 0
              THEN /\ aggOutcome' = Threw(TopCountError)
                   /\ apc' = "done"
                   /\ UNCHANGED aggMap
            ELSE /\ apc' = "fold"
                 /\ UNCHANGED <<aggMap, aggOutcome>>
       ELSE /\ aggMap' = FromEntries([i \in 1..Len(analyzedData) |->
                                        SeedEntry(analyzedData[i])], <<>>)
            /\ apc' = "fold"
            /\ UNCHANGED aggOutcome
  /\ UNCHANGED <<aggVersion, analyzedData, aggData, topCount, aggNext,
                 topProtocols, exported, analyzeWithLabel>>
  /\ UNCHANGED <<fetchVars, decodeVars, rowVars>>

\* one record of the input is folded into result
AggFold ==
  /\ apc = "fold"
  /\ aggNext <= Len(aggData)
  /\ aggMap' = IF aggVersion = "handle"
                 THEN HandleFold(aggMap, aggData[aggNext], analyzeWithLabel)
                 ELSE SummarizeFold(aggMap, aggData[aggNext])
  /\ aggNext' = aggNext + 1
  /\ UNCHANGED <<aggVersion, analyzedData, aggData, topCount, apc,
                 topProtocols, exported, aggOutcome, analyzeWithLabel>>
  /\ UNCHANGED <<fetchVars, decodeVars, rowVars>>

\* after the loop: sort, slice, export, and return
AggRank ==
  /\ apc = "fold"
  /\ aggNext > Len(aggData)
  /\ LET ranked == JsSlice(SortDescending(aggVersion, aggMap), 0, topCount)
     IN  /\ topProtocols' = ranked
         /\ exported' = Exported(aggVersion, topCount, ranked)
  /\ aggOutcome' = AggReturned(IF aggVersion = "handle" THEN JsObject(aggMap)
                               ELSE JsUndefined)
  /\ apc' = "done"
  /\ UNCHANGED <<aggVersion, analyzedData, aggData, topCount, aggNext, aggMap,
                 analyzeWithLabel>>
  /\ UNCHANGED <<fetchVars, decodeVars, rowVars>>

InitAggregate ==
  /\ FetchIdle
  /\ maxAttempts = 0
  /\ retryDelay = 2000
  /\ DecodeIdle
  /\ variant = "part_004"
  /\ input = [form |-> "none"]
  /\ callData = <<>>
  /\ RowsIdle
  /\ aggVersion \in {"summarize", "handle"}
  /\ IF aggVersion = "handle"
       THEN /\ analyzedData = <<>>
            /\ aggData \in DataSeqs(MaxData)
            /\ analyzeWithLabel \in BOOLEAN
       ELSE /\ analyzedData \in SampleInfos
            /\ aggData \in AddressSeqs(MaxData)
            /\ analyzeWithLabel = FALSE
  /\ topCount \in 0..MaxTop
  /\ apc = "idle"
  /\ aggNext = 1
  /\ aggMap = <<>>
  /\ topProtocols = <<>>
  /\ exported = <<>>
  /\ aggOutcome = Pending

NextAggregate ==
  \/ AggStart
  \/ AggFold
  \/ AggRank

SpecAggregate == InitAggregate /\ [][NextAggregate]_vars

(***************************************************************************)
(* Properties of the fetch pipeline                                        *)
(***************************************************************************)
\* a pollForResults call has been made
InPoll == pageRequests > 0
\* getPaginatedData has returned (its last pollForResults call resolved)
FetchReturned == pc = "done" /\ InPoll /\ pollResult.status = "returned"
\* the number of rows in a sequence of pages
RECURSIVE RowCount(_)
RowCount(pages) == IF pages = <<>> THEN 0 ELSE Len(Head(pages)) + RowCount(Tail(pages))
\* the entries of a poll log that are Pending/Executing reports
Reports(log) == {i \in 1..Len(log) :
                   log[i].resp \in {"QUERY_STATE_PENDING", "QUERY_STATE_EXECUTING"}}
\* every response logged so far carries the label l
OnlyLogged(l) == \A i \in 1..Len(pollLog) : pollLog[i].resp = l

\* C1: getPaginatedData stops at the first page shorter than the page size
\* (an empty one included), requests no page after it, and returns the rows
\* of all fetched pages concatenated in fetch order: none dropped, duplicated
\* or reordered.
C1_StopsAtShortPageAndConcatenates ==
  /\ \A i \in 1..Len(served) :
       Len(served[i]) < PerPage =>
         /\ i = Len(served)
         /\ pageRequests = i
         /\ pc \in {"page", "done"}
  /\ FetchReturned =>
       /\ served # <<>>
       /\ Len(served[Len(served)]) < PerPage
       /\ result = Returned(Flat(served))
       /\ \A i \in 1..Len(result.rows) : result.rows[i] = i

\* C1 witness: a fetch that returned three full pages and a short one
C1_Witness ==
  /\ FetchReturned
  /\ Len(served) = 4
  /\ Len(served[4]) = 1
  /\ result.rows = <<1, 2, 3, 4, 5, 6, 7>>

\* C2: against n full pages followed by a page of r < PerPage rows, the
\* fetch returns n * PerPage + r rows after exactly n + 1 page requests.
C2_RowAndRequestCount ==
  FetchReturned =>
    LET n == Len(served) - 1
        r == Len(served[Len(served)])
    IN  (/\ r < PerPage
         /\ \A i \in 1..n : Len(served[i]) = PerPage)
        => /\ Len(result.rows) = n * PerPage + r
           /\ pageRequests = n + 1

\* C2 witness: pages of sizes PerPage, PerPage, PerPage, 1 (and, first, an
\* empty first page is answered after one request)
C2_Witness ==
  /\ FetchReturned
  /\ Len(served) = 4
  /\ Len(served[4]) = 1
  /\ Len(result.rows) = 3 * PerPage + 1
  /\ pageRequests = 4

\* C2 second case: a first page of length 0
C2_WitnessEmpty ==
  /\ FetchReturned
  /\ served = << <<>> >>
  /\ result.rows = <<>>
  /\ pageRequests = 1

\* C3: a pollForResults call answered only with Pending (or only with
\* Executing) issues at most maxAttempts requests, never returns rows, and
\* once maxAttempts requests are used up it fails with QueryTimedOut.
C3_OnlyRunningTimesOut ==
  (/\ InPoll
   /\ requests = Len(pollLog)
   /\ OnlyLogged("QUERY_STATE_PENDING") \/ OnlyLogged("QUERY_STATE_EXECUTING"))
  => /\ requests <= maxAttempts
     /\ pollResult.status # "returned"
     /\ pc = "poll" => requests < maxAttempts
     /\ (requests = maxAttempts /\ pc # "sleep") => pollResult = Threw(TimedOut)
     /\ pollResult.status = "threw" =>
          pollResult = Threw(TimedOut) /\ requests = maxAttempts

\* C3 witness: four Pending reports, then the timeout
C3_Witness ==
  /\ InPoll
  /\ maxAttempts = 4
  /\ Len(pollLog) = 4
  /\ OnlyLogged("QUERY_STATE_PENDING")
  /\ pollResult = Threw(TimedOut)

\* C4: a poll answered with state Failed makes pollForResults fail with
\* QueryExecutionFailed carrying the reported reason on that very poll: no
\* sleep, no further request, whatever the attempts remaining.
C4_FailedIsTerminal ==
  lastResp.state = "QUERY_STATE_FAILED" =>
    /\ pollResult = Threw(ExecutionFailed(lastResp.error))
    /\ pc \in {"thrown", "done"}
    /\ Len(pollLog) = requests - 1
    /\ attempt = requests - 1

\* C4 witness: a Failed report with a reason after two polls, attempts left
C4_Witness ==
  /\ lastResp.state = "QUERY_STATE_FAILED"
  /\ lastResp.error = "syntax error"
  /\ pollResult.error.reason = "syntax error"
  /\ requests = 3
  /\ maxAttempts = 4

\* C5: a poll answered with state Completed and a result makes
\* pollForResults return exactly the result's rows on that poll, without a
\* sleep or a further request, after any sequence of Pending/Executing polls.
C5_CompletedReturnsRows ==
  (lastResp.state = "QUERY_STATE_COMPLETED" /\ lastResp.hasResult) =>
    /\ pollResult = Returned(lastResp.rows)
    /\ pc \in {"page", "done"}
    /\ Len(pollLog) = requests - 1

\* C5 witness: Pending, Executing, then Completed with a full page
C5_Witness ==
  /\ lastResp.state = "QUERY_STATE_COMPLETED"
  /\ lastResp.hasResult
  /\ Len(lastResp.rows) = PerPage
  /\ Len(pollLog) = 2
  /\ pollLog[1].resp = "QUERY_STATE_PENDING"
  /\ pollLog[2].resp = "QUERY_STATE_EXECUTING"
  /\ pc = "page"

\* C6: a query that fails or times out on any page makes the public
\* operation fail with that error, never return an empty or partial result.
C6_FailurePropagates ==
  (pc = "done" /\ InPoll /\ pollResult.status = "threw"
   /\ pollResult.error.name \in {"QueryExecutionFailed", "QueryTimedOut"})
  => result = Threw(pollResult.error)

\* C7 as stated: a rate-limited poll is not counted against the retry
\* budget, so a timeout needs maxAttempts Pending/Executing reports.
C7_RateLimitNotCounted ==
  (InPoll /\ pollResult = Threw(TimedOut)) =>
    Cardinality(Reports(pollLog)) >= maxAttempts

\* C7 amended: a rate-limited poll uses up one attempt of the same budget
\* as a Pending/Executing report: a request is issued only while fewer than
\* maxAttempts responses of either kind came before it, and the call times
\* out exactly when maxAttempts of them have been slept through.
C7_RateLimitCounted ==
  InPoll =>
    /\ pc = "poll" => (attempt = Len(pollLog) /\ Len(pollLog) < maxAttempts)
    /\ pollResult.status = "returned" => Len(pollLog) < maxAttempts
    /\ pollResult = Threw(TimedOut) <=>
         (Len(pollLog) = maxAttempts /\ pc # "sleep")

\* C7 witness: a timeout with fewer than maxAttempts Pending/Executing reports
C7_Witness ==
  /\ InPoll
  /\ pollResult = Threw(TimedOut)
  /\ maxAttempts = 3
  /\ Cardinality(Reports(pollLog)) = 1
  /\ \E i \in 1..Len(pollLog) : pollLog[i].resp = "HTTP_429"

\* C8: against k < maxAttempts Executing reports and then Completed with
\* rows, pollForResults returns after exactly k + 1 requests, and the k
\* delays grow strictly until they reach the cap, for every jitter.
C8_ExecutingThenCompleted ==
  (InPoll /\ OnlyLogged("QUERY_STATE_EXECUTING")) =>
    /\ pollResult.status = "returned" =>
         (requests = Len(pollLog) + 1 /\ Len(pollLog) < maxAttempts)
    /\ \A i \in 1..(Len(pollLog) - 1) :
         \/ pollLog[i].delay < pollLog[i + 1].delay
         \/ pollLog[i].delay = DelayCap /\ pollLog[i + 1].delay = DelayCap

\* C8 witness: three Executing reports, then rows at the fourth request,
\* the delays reaching the cap
C8_Witness ==
  /\ InPoll
  /\ OnlyLogged("QUERY_STATE_EXECUTING")
  /\ Len(pollLog) = 3
  /\ pollResult.status = "returned"
  /\ requests = 4
  /\ pollLog[1].delay < pollLog[2].delay
  /\ pollLog[3].delay = DelayCap

(***************************************************************************)
(* Properties of the decoder                                               *)
(***************************************************************************)
\* the outer call data is a multiSend(bytes) call on a buffer of packed
\* records followed by a truncated record (or by nothing)
IsBatch == input.form = "call" /\ input.selector = MultiSendSelector
\* the outer call data does not start with the selector of multiSend(bytes)
WrongSelector ==
  /\ input.form \in {"call", "raw"}
  /\ SubSeq(input.bytes, 1, Min(SelectorWidth, Len(input.bytes))) # MultiSendSelector
\* the record parseMultiSendTransactions makes of a packed record
Parsed(rec) ==
  [operation |-> rec.operation, to |-> BytesToHex(rec.to), value |-> rec.value,
   data |-> BytesToHex(rec.data), dataLength |-> Len(rec.data)]

\* C9: a packed buffer of m complete records followed by a truncated record
\* decodes to exactly those m records, in order, without an error; an empty
\* buffer decodes to the empty sequence.
C9_TruncationKeepsCompleteRecords ==
  (IsBatch /\ dpc \in {"parsed", "done"}) =>
    /\ transactions = [i \in 1..Len(input.records) |-> Parsed(input.records[i])]
    /\ dpc = "parsed" => ~caught

\* C10: decodeMultiSend on call data whose selector is not that of
\* multiSend(bytes) returns the empty sequence, raises no error and scans
\* nothing.
C10_OtherSelectorDecodesToNothing ==
  WrongSelector =>
    /\ dpc \in {"idle", "done"}
    /\ transactions = <<>>
    /\ dpc = "done" => decoded = Returned(<<>>)

\* C10 witness: a call of another function on a buffer holding one record
C10_Witness ==
  /\ WrongSelector
  /\ input.form = "call"
  /\ Len(input.records) = 1
  /\ dpc = "done"
  /\ decoded = Returned(<<>>)

\* decodeMultiSend has returned what the map over the records made
Mapped == IsBatch /\ dpc = "done" /\ ~caught
\* the version resolves the records with decodeFunction
HasDecodeFunction == variant \in {"part_004", "part_005"}
\* the call data of a record is a call of transfer or transferFrom
IsTransfer(rec) ==
  Len(rec.data) >= SelectorWidth
    /\ SubSeq(rec.data, 1, SelectorWidth) \in {TransferSelector, TransferFromSelector}
\* the words of the arguments of a record's call data that are all there
ArgWords(rec) == (Len(rec.data) - SelectorWidth) \div WordWidth
\* the arguments of a transfer are all there
WellFormedTransfer(rec) ==
  /\ IsTransfer(rec)
  /\ ArgWords(rec) >= (IF SubSeq(rec.data, 1, SelectorWidth) = TransferSelector
                         THEN 2 ELSE 3)
\* the k-th argument word of a record's call data
ArgWord(rec, k) ==
  SubSeq(rec.data, SelectorWidth + WordWidth * (k - 1) + 1, SelectorWidth + WordWidth * k)
\* the `to` argument of a transfer (the second address of a transferFrom)
ToArgument(rec) ==
  LET w == ArgWord(rec, IF SubSeq(rec.data, 1, SelectorWidth) = TransferSelector
                          THEN 1 ELSE 2)
  IN  SubSeq(w, WordWidth - AddressWidth + 1, WordWidth)
\* the amount argument of a transfer
AmountArgument(rec) ==
  ArgWord(rec, IF SubSeq(rec.data, 1, SelectorWidth) = TransferSelector THEN 2 ELSE 3)

\* C12: a record whose call data is a transfer or a transferFrom resolves to
\* the decoded `to` argument (of a transferFrom: the second address) and to
\* the decoded amount, whatever the record's own `to` and `value` are.
C12_TransferResolvesToArgument ==
  (Mapped /\ HasDecodeFunction) =>
    \A i \in 1..Len(input.records) :
      WellFormedTransfer(input.records[i]) =>
        /\ i <= Len(decoded.rows)
        /\ decoded.rows[i].to = BytesToHex(ToArgument(input.records[i]))
        /\ decoded.rows[i].value =
             [type |-> "string", val |-> BytesToBigInt(AmountArgument(input.records[i]))]

\* C12 witness: a transferFrom on a token contract, with a value of its own,
\* resolved to the second address of its arguments
C12_Witness ==
  /\ Mapped /\ HasDecodeFunction
  /\ \E i \in 1..Len(input.records) :
       /\ WellFormedTransfer(input.records[i])
       /\ SubSeq(input.records[i].data, 1, SelectorWidth) = TransferFromSelector
       /\ input.records[i].to = AddrToken
       /\ input.records[i].value # <<>>
       /\ decoded.rows[i].to = BytesToHex(AddrB)
       /\ decoded.rows[i].to # BytesToHex(AddrA)

\* C13: a record whose call data does not start with a selector of the
\* registry (empty and shorter call data included) resolves to its own `to`,
\* lower-cased, and to its own value, unchanged.
C13_UnknownSelectorKeepsOwn ==
  (Mapped /\ HasDecodeFunction) =>
    \A i \in 1..Len(input.records) :
      ~IsTransfer(input.records[i]) =>
        /\ i <= Len(decoded.rows)
        /\ decoded.rows[i].to = ToLowerCase(BytesToHex(input.records[i].to))
        /\ decoded.rows[i].value.val = input.records[i].value

\* C14: when the selector of a record is in the registry and decoding its
\* arguments fails, the record resolves to its own `to` and value, and every
\* other record of the batch is still returned.
C14_InnerFailureKeepsBatch ==
  (IsBatch /\ HasDecodeFunction /\ dpc = "done") =>
    /\ Len(decoded.rows) = Len(transactions)
    /\ \A i \in 1..Len(input.records) :
         (IsTransfer(input.records[i]) /\ ~WellFormedTransfer(input.records[i])) =>
           /\ i <= Len(decoded.rows)
           /\ decoded.rows[i].to = ToLowerCase(BytesToHex(input.records[i].to))
           /\ decoded.rows[i].value.val = input.records[i].value

\* the packed record a parsed record stands for
Unparsed(tx) ==
  [operation |-> tx.operation, to |-> HexToBytes(tx.to), value |-> tx.value,
   lenField |-> Word(tx.dataLength), data |-> HexToBytes(tx.data)]
\* the outer call data is a multiSend(bytes) call on complete records only
IsValidBatch == IsBatch /\ input.tail = <<>>

\* C16: parsing the concatenation of the packed encodings of a sequence of
\* (operation, to, value, data) tuples yields that sequence, and encoding the
\* parsed records again reproduces the buffer byte for byte.
C16_PackedRoundTrip ==
  (IsValidBatch /\ dpc \in {"parsed", "done"}) =>
    /\ Len(transactions) = Len(input.records)
    /\ \A i \in 1..Len(transactions) :
         /\ transactions[i].operation = input.records[i].operation
         /\ HexToBytes(transactions[i].to) = input.records[i].to
         /\ transactions[i].value = input.records[i].value
         /\ HexToBytes(transactions[i].data) = input.records[i].data
    /\ EncodeRecords([i \in 1..Len(transactions) |-> Unparsed(transactions[i])])
         = dataBytes

\* C16 witness: two records, one of them with call data, parsed to the end
C16_Witness ==
  /\ IsValidBatch
  /\ dpc = "parsed"
  /\ Len(input.records) = 2
  /\ Len(transactions) = 2
  /\ offset = Len(dataBytes)
  /\ \E i \in 1..2 : transactions[i].dataLength > SelectorWidth

(***************************************************************************)
(* Properties of decodeSafeTransaction                                     *)
(***************************************************************************)
\* decodeSafeTransaction has returned
RowsReturned == rpc = "done" /\ rowsOutcome.status = "returned"
\* the destination a packed record resolves to
Destination(v, rec) ==
  IF v = "part_003" THEN BytesToHex(rec.to)
  ELSE IF WellFormedTransfer(rec) THEN BytesToHex(ToArgument(rec))
  ELSE ToLowerCase(BytesToHex(rec.to))
\* the destinations of a row: one for a direct call, one for each packed record
RowDestinations(v, tx) ==
  IF v # "part_003" /\ tx.operation = 0 THEN <<ToLowerCase(tx.to.str)>>
  ELSE [i \in 1..Len(tx.records) |-> Destination(v, tx.records[i])]
\* the address of an element of the result
AddressOf(v, out) == IF v = "part_003" THEN out ELSE out.to

\* C11: decodeMultiSend returns one resolved destination for each packed
\* record read, in the order of the buffer, and decodeSafeTransaction
\* concatenates the outputs of the rows in row order: no record is reordered,
\* dropped or duplicated.
C11_OneDestinationPerRecordInOrder ==
  RowsReturned =>
    [i \in 1..Len(rowsOutcome.rows) |-> AddressOf(variant, rowsOutcome.rows[i])]
      = Flat([k \in 1..Len(rawData) |-> RowDestinations(variant, rawData[k])])

\* a row that is an object with the fields decodeSafeTransaction reads
WellFormedRow(v, tx) == ~tx.null /\ (v = "part_003" \/ tx.operation # 0 \/ ~tx.to.null)
\* the rows of a page that are well-formed
WellFormedRows(v, page) == {k \in 1..Len(page) : WellFormedRow(v, page[k])}

\* C15: when a row of the page is malformed or fails to decode,
\* decodeSafeTransaction still returns the decoded records of every other
\* row, and raises nothing to its caller.
C15_RowFailureIsConfined ==
  rpc = "done" =>
    /\ rowsOutcome.status = "returned"
    /\ rowsOutcome.rows =
         Flat([k \in 1..Len(rawData) |->
                 IF k \in WellFormedRows(variant, rawData)
                   THEN RowOutput(variant, rawData[k]).out ELSE <<>>])

(***************************************************************************)
(* Properties of the aggregation                                           *)
(***************************************************************************)
RECURSIVE SumSeq(_)
SumSeq(q) == IF q = <<>> THEN 0 ELSE Head(q) + SumSeq(Tail(q))

\* the key of a record of the input, and of a row of the statistics
InputKey(rec) == ToLowerCase(IF aggVersion = "handle" THEN rec.to ELSE rec)
SeedKey(data) == IF data.to.null THEN <<>> ELSE ToLowerCase(data.to.str)

\* the records of the input folded so far that have the key
Folded(key) == {i \in 1..(aggNext - 1) : InputKey(aggData[i]) = key}

\* what summarize starts from for a key: the last row of the statistics with
\* the key, or zeros
Seeded(key) ==
  LET rows == {i \in 1..Len(analyzedData) : SeedKey(analyzedData[i]) = key}
      last == CHOOSE i \in rows : \A j \in rows : j <= i
  IN  IF rows = {} \/ analyzedData[last].to.null
        THEN Info("", 0, 0, JsString(<<>>), 0)
        ELSE analyzedData[last]

\* the keys seen, in the order they are first seen
KeysSeen ==
  [i \in 1..Len(analyzedData) |-> SeedKey(analyzedData[i])]
    \o [i \in 1..(aggNext - 1) |-> InputKey(aggData[i])]
FirstSeen(key) == CHOOSE i \in 1..Len(KeysSeen) :
                    KeysSeen[i] = key /\ \A j \in 1..(i - 1) : KeysSeen[j] # key

AggDone == apc = "done" /\ aggOutcome.status = "returned"

\* C17: after the fold, the interactions of every key equal the number of
\* input records whose lower-cased key is that key (in summarize: the seeded
\* tx_cnt plus that number); keys that differ in letter case only share one
\* entry, and every entry is stored under its lower-cased key.
C17_CountsPerLowerCasedKey ==
  apc # "idle" =>
    /\ \A i \in 1..Len(aggMap) :
         /\ aggMap[i].key = ToLowerCase(aggMap[i].key)
         /\ \A j \in 1..Len(aggMap) : aggMap[j].key = aggMap[i].key => j = i
         /\ CountOf(aggVersion, aggMap[i].stat)
              = Seeded(aggMap[i].key).tx_cnt + Cardinality(Folded(aggMap[i].key))
    /\ \A i \in 1..Len(KeysSeen) : HasKey(aggMap, KeysSeen[i])

\* handle has folded a key given in two letter cases, and summarize has
\* added two such records to a seeded tx_cnt
C17_Witness ==
  /\ AggDone
  /\ \E i, j \in 1..Len(aggData) :
       /\ InputKey(aggData[i]) = InputKey(aggData[j])
       /\ aggData[i] # aggData[j]
       /\ (IF aggVersion = "handle" THEN aggData[i].to ELSE aggData[i]) = KeyAUpper
       /\ (IF aggVersion = "handle" THEN aggData[j].to ELSE aggData[j]) = KeyA
  /\ HasKey(aggMap, KeyA)
  /\ CountOf(aggVersion, GetEntry(aggMap, KeyA)) >= 2
  /\ aggVersion = "handle" \/ Seeded(KeyA).tx_cnt > 0

\* C18: for every key, the gas of the entry is the sum of the gas, and its
\* value the sum of the value, of the input records with the key; the
\* ranked entries carry the same totals.
C18_TotalsPerKey ==
  AggDone =>
    \A e \in {aggMap[i] : i \in 1..Len(aggMap)}
             \cup {topProtocols[i] : i \in 1..Len(topProtocols)} :
      LET gas == [i \in 1..Len(aggData) |->
                    IF aggVersion = "handle" /\ InputKey(aggData[i]) = e.key
                      THEN aggData[i].gas ELSE 0]
          value == [i \in 1..Len(aggData) |->
                      IF aggVersion = "handle" /\ InputKey(aggData[i]) = e.key
                        THEN aggData[i].value ELSE 0]
      IN  /\ e.stat.gas = Seeded(e.key).gas + SumSeq(gas)
          /\ "value" \in DOMAIN e.stat
          /\ e.stat.value = Seeded(e.key).value + SumSeq(value)

\* the place of a ranked entry in the order the keys were first seen
Place(e) == FirstSeen(e.key)

\* C19: the ranked sequence is the folded entries by descending interactions,
\* equal interactions in first-seen order, cut to the first topCount: its
\* length is min(topCount, number of distinct keys), and no entry outside it
\* has more interactions than an entry inside it.
C19_RankedDescendingStableCut ==
  AggDone =>
    LET inside == {topProtocols[r] : r \in 1..Len(topProtocols)}
        all == {aggMap[i] : i \in 1..Len(aggMap)}
        Before(e, f) ==
          \/ CountOf(aggVersion, e.stat) > CountOf(aggVersion, f.stat)
          \/ /\ CountOf(aggVersion, e.stat) = CountOf(aggVersion, f.stat)
             /\ Place(e) < Place(f)
    IN  /\ Len(topProtocols) = Min(topCount, Len(aggMap))
        /\ inside \subseteq all
        /\ \A r, s \in 1..Len(topProtocols) :
             r < s => Before(topProtocols[r], topProtocols[s])
        /\ \A e \in all \ inside : \A f \in inside :
             /\ CountOf(aggVersion, e.stat) <= CountOf(aggVersion, f.stat)
             /\ Before(f, e)

\* the ranking moved a key seen later ahead of one seen earlier, and cut
\* off an entry with as many interactions as the last one kept
C19_Witness ==
  /\ AggDone
  /\ Len(topProtocols) = 2
  /\ Place(topProtocols[1]) > Place(topProtocols[2])
  /\ \E i \in 1..Len(aggMap) :
       /\ aggMap[i] # topProtocols[1]
       /\ aggMap[i] # topProtocols[2]
       /\ CountOf(aggVersion, aggMap[i].stat)
            = CountOf(aggVersion, topProtocols[2].stat)

\* C20: the call returns the full unranked map together with the ranked
\* sequence: the returned map holds every distinct key of the input, not
\* the first topCount only, and its interactions sum to the number of input
\* records (in summarize: plus the seeded tx_cnt), for every topCount.
C20_ReturnsMapAndRanked ==
  AggDone =>
    /\ aggOutcome.value.kind = "object"
    /\ "ranked" \in DOMAIN aggOutcome.value
    /\ LET map == aggOutcome.value.entries
       IN  /\ {map[i].key : i \in 1..Len(map)}
                = {KeysSeen[i] : i \in 1..Len(KeysSeen)}
           /\ SumSeq([i \in 1..Len(map) |-> CountOf(aggVersion, map[i].stat)])
                = Len(aggData)
                  + SumSeq([i \in 1..Len(map) |-> Seeded(map[i].key).tx_cnt])

(***************************************************************************)
(* Properties of pollForResults under rate limits and errors               *)
(***************************************************************************)
\* the current pollForResults call has ended
PollEnded == InPoll /\ pollResult.status # "pending"
\* the entries of a poll log that are rate-limit signals
RateLimits(log) == {i \in 1..Len(log) : log[i].resp = "HTTP_429"}

\* C21: the rate limit is never the failure the caller of pollForResults
\* sees: a call whose latest response is HTTP 429 sleeps and goes on, and a
\* call in which no request was rejected with another error returns rows or
\* fails with QueryExecutionFailed or QueryTimedOut, also when every poll is
\* rate-limited.
C21_RateLimitNeverSurfaced ==
  InPoll =>
    /\ lastResp.status = 429 =>
         /\ pollLog # <<>> /\ pollLog[Len(pollLog)].resp = "HTTP_429"
         /\ pollResult.status = "threw" => pollResult = Threw(TimedOut)
    /\ (PollEnded /\ RateLimits(pollLog) # {} /\ lastResp.status \in {200, 429}) =>
         \/ pollResult.status = "returned"
         \/ pollResult.error.name \in {"QueryExecutionFailed", "QueryTimedOut"}
    /\ (PollEnded /\ requests = Len(pollLog) /\ OnlyLogged("HTTP_429")) =>
         pollResult = Threw(TimedOut) /\ requests = maxAttempts

\* every poll of a call was rate-limited, and the call timed out
C21_Witness ==
  /\ PollEnded
  /\ maxAttempts = 3
  /\ Len(pollLog) = 3
  /\ OnlyLogged("HTTP_429")
  /\ lastResp.status = 429
  /\ pollResult = Threw(TimedOut)

\* rate limits, then rows
C21_WitnessRows ==
  /\ PollEnded
  /\ Cardinality(RateLimits(pollLog)) = 2
  /\ pollResult.status = "returned"
  /\ Len(pollResult.rows) = PerPage

\* C22: getPaginatedData asks for the pages one after the other: the k-th
\* call of pollForResults has limit PerPage and offset (k - 1) * PerPage, it
\* is made only after the page before it was returned with at least PerPage
\* rows, at most one call is unanswered at any time, and no offset is
\* skipped or asked for twice.
C22_PagesStrictlySequential ==
  /\ Len(pageLog) = pageRequests
  /\ \A k \in 1..Len(pageLog) :
       /\ pageLog[k].limit = PerPage
       /\ pageLog[k].offset = (k - 1) * PerPage
       /\ k > 1 => (Len(served) >= k - 1 /\ Len(served[k - 1]) >= PerPage)
  /\ Len(served) <= Len(pageLog)
  /\ Len(pageLog) <= Len(served) + 1
  /\ pc \in {"poll", "sleep"} => Len(pageLog) = Len(served) + 1
  /\ pc = "page" => Len(pageLog) = Len(served)

\* the fourth page is being polled for after three full pages, the call
\* having slept once
C22_Witness ==
  /\ Len(pageLog) = 4
  /\ pageLog[4] = [limit |-> PerPage, offset |-> 3 * PerPage]
  /\ Len(served) = 3
  /\ pc = "sleep"

\* the bounds of a delay with exponent i: at least min(base * 2^i, cap),
\* below base * 2^i * 1.1 when below the cap, and at most the cap
WithinBackoffBounds(delay, i) ==
  LET exponentialDelay == retryDelay * Pow2(i)
  IN  /\ delay >= Min(exponentialDelay, DelayCap)
      /\ delay < DelayCap => 10 * delay < 11 * exponentialDelay
      /\ delay <= DelayCap

\* C23 as stated: the sleep after the i-th (0-indexed) Pending/Executing
\* poll is min(baseDelay * 2^i * (1 + jitter), 30 s) with jitter in [0, 0.1),
\* i counting the Pending/Executing polls.
C23_DelayOfIthRunningPoll ==
  InPoll =>
    \A n \in Reports(pollLog) :
      WithinBackoffBounds(pollLog[n].delay,
                          Cardinality({m \in Reports(pollLog) : m < n}))

\* C23 amended: the sleep after a Pending/Executing poll is
\* min(baseDelay * 2^a * (1 + jitter), 30 s) with jitter in [0, 0.1), where a
\* is the loop's attempt, the number of earlier polls of the call of any
\* kind; it is at least min(baseDelay * 2^a, 30 s), below
\* baseDelay * 2^a * 1.1 when below the cap, and never above 30 s.
C23_DelayOfAttempt ==
  InPoll =>
    \A n \in 1..Len(pollLog) :
      pollLog[n].resp \in {"QUERY_STATE_PENDING", "QUERY_STATE_EXECUTING"} =>
        /\ pollLog[n].attempt = n - 1
        /\ WithinBackoffBounds(pollLog[n].delay, pollLog[n].attempt)

\* a Pending report after a rate-limited poll sleeps twice the base delay
\* and its jitter, and a later report sleeps the cap
C23_Witness ==
  /\ InPoll
  /\ retryDelay = 2000
  /\ Len(pollLog) = 4
  /\ pollLog[1].resp = "HTTP_429"
  /\ pollLog[2].resp = "QUERY_STATE_PENDING"
  /\ pollLog[2].delay = 4360
  /\ pollLog[4].resp = "QUERY_STATE_EXECUTING"
  /\ pollLog[4].delay = 17440

\* min(5 s * 2^j, 60 s)
RateLimitSleep(j) == Min(5000 * Pow2(j), 60000)

\* C24 as stated: the two backoffs count separately: the sleep after the
\* j-th (0-indexed) rate-limit signal of a call is min(5 s * 2^j, 60 s), j
\* counting rate-limit signals only, and the sleep after the i-th
\* Pending/Executing poll has the exponent i, counting those polls only.
C24_IndependentCounters ==
  InPoll =>
    /\ \A n \in RateLimits(pollLog) :
         pollLog[n].delay
           = RateLimitSleep(Cardinality({m \in RateLimits(pollLog) : m < n}))
    /\ \A n \in Reports(pollLog) :
         WithinBackoffBounds(pollLog[n].delay,
                             Cardinality({m \in Reports(pollLog) : m < n}))

\* C24 amended: the two backoffs share the loop's attempt: the sleep after
\* a rate-limit signal is min(5 s * 2^a, 60 s) and the sleep after a
\* Pending/Executing poll has the exponent a, where a is the number of
\* earlier polls of the call of either kind.
C24_SharedCounter ==
  InPoll =>
    \A n \in 1..Len(pollLog) :
      /\ pollLog[n].attempt = n - 1
      /\ pollLog[n].resp = "HTTP_429"
           => pollLog[n].delay = RateLimitSleep(n - 1)
      /\ pollLog[n].resp \in {"QUERY_STATE_PENDING", "QUERY_STATE_EXECUTING"}
           => WithinBackoffBounds(pollLog[n].delay, n - 1)

\* rate-limit signals and Pending reports in turn: the second rate limit
\* sleeps 20 s, the last one the cap
C24_Witness ==
  /\ InPoll
  /\ retryDelay = 2000
  /\ Len(pollLog) = 5
  /\ pollLog[1].resp = "HTTP_429" /\ pollLog[1].delay = 5000
  /\ pollLog[2].resp = "QUERY_STATE_PENDING" /\ pollLog[2].delay = 4000
  /\ pollLog[3].resp = "HTTP_429" /\ pollLog[3].delay = 20000
  /\ pollLog[4].resp = "QUERY_STATE_EXECUTING" /\ pollLog[4].delay = 16000
  /\ pollLog[5].resp = "HTTP_429" /\ pollLog[5].delay = 60000

\* every request of the current call ended in a sleep
AllSlept == Len(pollLog) = requests

\* C27: whatever the mix of Pending, Executing, Completed-without-result
\* and HTTP 429 responses, a pollForResults call issues at most maxAttempts
\* requests, and it fails with 'Query execution timed out' exactly when
\* maxAttempts requests were issued and none returned rows or raised
\* another error; with maxAttempts = 0 it times out without a request.
C27_RequestsWithinBudget ==
  InPoll =>
    /\ requests <= maxAttempts
    /\ pc = "poll" => requests < maxAttempts
    /\ pollResult = Threw(TimedOut) => (requests = maxAttempts /\ AllSlept)
    /\ (PollEnded /\ requests = maxAttempts /\ AllSlept) =>
         pollResult = Threw(TimedOut)
    /\ (PollEnded /\ pollResult # Threw(TimedOut)) =>
         (Len(pollLog) = requests - 1 /\ lastResp.state # "none")
    /\ maxAttempts = 0 => (requests = 0 /\ pollResult = Threw(TimedOut))

\* a call timed out after a Pending report, a rate limit and a Completed
\* report without result
C27_Witness ==
  /\ InPoll
  /\ maxAttempts = 3
  /\ requests = 3
  /\ Len(pollLog) = 3
  /\ pollLog[1].resp = "QUERY_STATE_PENDING"
  /\ pollLog[2].resp = "HTTP_429"
  /\ pollLog[3].resp = "COMPLETED_NO_RESULT"
  /\ pollResult = Threw(TimedOut)

\* a call with maxAttempts = 0 timed out without a request
C27_WitnessZero ==
  /\ InPoll
  /\ maxAttempts = 0
  /\ requests = 0
  /\ pollResult = Threw(TimedOut)

\* the entries of a poll log that are Completed reports without a result
NoResults(log) == {i \in 1..Len(log) : log[i].resp = "COMPLETED_NO_RESULT"}

\* C28: a response with state Completed and no result is handled like
\* Pending/Executing: it uses up one attempt, pollForResults sleeps the
\* normal backoff delay and polls again, and returns no rows for it; when
\* every response is of this kind the call times out after maxAttempts
\* requests.
C28_CompletedWithoutResultIsRunning ==
  InPoll =>
    /\ \A n \in NoResults(pollLog) :
         /\ pollLog[n].attempt = n - 1
         /\ WithinBackoffBounds(pollLog[n].delay, n - 1)
    /\ (lastResp.state = "QUERY_STATE_COMPLETED" /\ ~lastResp.hasResult) =>
         /\ AllSlept
         /\ Len(pollLog) \in NoResults(pollLog)
         /\ pollResult.status # "returned"
         /\ pc \in {"sleep", "poll", "thrown", "done"}
         /\ pc \in {"thrown", "done"} =>
              (pollResult = Threw(TimedOut) /\ requests = maxAttempts)
    /\ (pc = "poll" /\ Len(pollLog) \in NoResults(pollLog)) =>
         (attempt = Len(pollLog) /\ attempt < maxAttempts)
    /\ (PollEnded /\ AllSlept /\ OnlyLogged("COMPLETED_NO_RESULT")) =>
         (pollResult = Threw(TimedOut) /\ requests = maxAttempts)

\* three Completed reports without result, then the timeout
C28_Witness ==
  /\ InPoll
  /\ maxAttempts = 3
  /\ Len(pollLog) = 3
  /\ OnlyLogged("COMPLETED_NO_RESULT")
  /\ pollLog[2].delay > pollLog[1].delay
  /\ pollResult = Threw(TimedOut)
  /\ served = <<>>

\* the latest request was rejected with an error that is not HTTP 429
OtherError == lastResp.state = "HTTP_ERROR" /\ lastResp.status # 429

\* C29: an error of the state-check request that is not an HTTP 429
\* response (no response at all, or a status such as 500) is rethrown by
\* pollForResults when it first occurs, without a sleep or a further
\* request, and getPaginatedData rethrows it to its caller, returning none
\* of the pages fetched before.
C29_OtherErrorIsRethrown ==
  (InPoll /\ OtherError) =>
    /\ pollResult = Threw(HttpError)
    /\ pc \in {"thrown", "done"}
    /\ Len(pollLog) = requests - 1
    /\ attempt = requests - 1
    /\ \A n \in 1..Len(pollLog) : pollLog[n].attempt = n - 1
    /\ pc = "done" =>
         /\ result.rows = <<>>
         /\ op \in DirectOps => result = Threw(HttpError)

\* two pages were fetched; polling for the third, a Pending report and then
\* a status 500 came, and the operation failed with that error
C29_Witness ==
  /\ InPoll
  /\ OtherError
  /\ lastResp.status = 500
  /\ op \in DirectOps
  /\ Len(allPages) = 2
  /\ Len(pollLog) = 1
  /\ requests = 2
  /\ maxAttempts = 5
  /\ pc = "done"
  /\ result = Threw(HttpError)

(***************************************************************************)
(* Properties of the scan loop                                             *)
(***************************************************************************)
\* the bytes of the fixed-width fields of a packed record
HeaderWidth == OperationWidth + AddressWidth + WordWidth + WordWidth
\* the input ends with the fixed-width fields of a record whose length field
\* declares more bytes than follow them
OversizeTail ==
  /\ IsBatch
  /\ Len(input.tail) >= HeaderWidth
  /\ LET declared == BytesToBigInt(SubSeq(input.tail, HeaderWidth - WordWidth + 1,
                                          HeaderWidth))
     IN  \/ Len(declared) > 3
         \/ SmallValue(declared) > Len(input.tail) - HeaderWidth

\* C25: a packed record whose length field declares more bytes than remain
\* in the buffer ends the decoding with exactly the records before it, and
\* without an error, whatever the value of the length field: 2^31 and more,
\* and 2^32 and more with small low 32 bits, included.
C25_OversizeLengthEndsDecoding ==
  (OversizeTail /\ dpc \in {"parse", "parsed", "done"}) =>
    /\ Len(transactions) <= Len(input.records)
    /\ dpc = "parsed" =>
         /\ transactions = [i \in 1..Len(input.records) |-> Parsed(input.records[i])]
         /\ ~caught

\* where the i-th emitted record starts in the buffer when every record
\* before it takes its fixed-width fields and dataLength bytes
StartOf(i) ==
  SumSeq([j \in 1..(i - 1) |-> HeaderWidth + transactions[j].dataLength])

\* C26: every record parseMultiSendTransactions emits has a `to` of exactly
\* 20 bytes, a value converted from exactly 32 bytes and a data field of
\* exactly dataLength bytes, 0 <= dataLength, all of them read from inside
\* the buffer.
C26_EmittedRecordsLieInBuffer ==
  dpc \in {"parse", "parsed"} =>
    \A i \in 1..Len(transactions) :
      LET tx == transactions[i]
          at == StartOf(i)
      IN  /\ tx.dataLength >= 0
          /\ at >= 0
          /\ at + HeaderWidth + tx.dataLength <= Len(dataBytes)
          /\ Len(tx.to) = 2 * AddressWidth
          /\ Len(tx.data) = 2 * tx.dataLength
          /\ tx.operation = dataBytes[at + 1]
          /\ HexToBytes(tx.to)
               = SubSeq(dataBytes, at + OperationWidth + 1, at + OperationWidth + AddressWidth)
          /\ tx.value
               = BytesToBigInt(SubSeq(dataBytes, at + OperationWidth + AddressWidth + 1,
                                      at + OperationWidth + AddressWidth + WordWidth))
          /\ HexToBytes(tx.data)
               = SubSeq(dataBytes, at + HeaderWidth + 1, at + HeaderWidth + tx.dataLength)

\* C30: parseMultiSendTransactions terminates on every buffer: the offset
\* stays within 0..length, every iteration that does not stop the loop moves
\* it on by at least 85 bytes, and at most floor(length / 85) records are
\* emitted, also with the hand-written bytesToNumber.
C30_ScanTerminates ==
  dpc \in {"parse", "parsed"} =>
    /\ offset >= 0
    /\ offset <= Len(dataBytes)
    /\ HeaderWidth * Len(transactions) <= offset
    /\ Len(transactions) <= Len(dataBytes) \div HeaderWidth

====
